---- MODULE Spec2Model ----
(***************************************************************************)
(* Model of src/spatial/act-on-set.hpp (Pinocchio): the SE(3) action, the  *)
(* inverse SE(3) action and the motion (Lie bracket) action on sets of     *)
(* spatial motions and spatial forces stored as the columns of 6xN         *)
(* matrices.                                                               *)
(*                                                                         *)
(* Arithmetic is exact integer arithmetic: rotations are taken among the   *)
(* rotation matrices with entries in {-1,0,1}, so that R^T R = I and       *)
(* R(a x b) = Ra x Rb hold exactly and the "up to floating tolerance"      *)
(* equalities of the specification become equalities.                      *)
(*                                                                         *)
(* Storage is modelled explicitly: a kernel reads and writes the halves    *)
(* (head<3>, tail<3>) of a column of a buffer, statement by statement, so  *)
(* that the VectorBlock views `linear`/`angular` of the input observe      *)
(* writes made through the output when both name the same storage.         *)
(* Columns are numbered from 1 (the code numbers them from 0).             *)
(***************************************************************************)
EXTENDS Integers, Sequences, FiniteSets, TLC

(* ------------------------------ bounds --------------------------------- *)

\* largest sum of the absolute values of the coordinates of one 3-vector
MaxCoord == 1

\* largest number of columns of a set
MaxCols == 2

(* --------------------------- 3D linear algebra ------------------------- *)
(* The dense-matrix library (Eigen) as used by the kernels.                *)

Abs(x) == IF x < 0 THEN -x ELSE x

Zero3 == <<0, 0, 0>>

Add(a, b) == <<a[1] + b[1], a[2] + b[2], a[3] + b[3]>>

Sub(a, b) == <<a[1] - b[1], a[2] - b[2], a[3] - b[3]>>

Dot(a, b) == a[1] * b[1] + a[2] * b[2] + a[3] * b[3]

\* a.cross(b)
Cross(a, b) == <<a[2] * b[3] - a[3] * b[2],
                 a[3] * b[1] - a[1] * b[3],
                 a[1] * b[2] - a[2] * b[1]>>

\* M * x, M given by its rows
MatVec(M, x) == <<Dot(M[1], x), Dot(M[2], x), Dot(M[3], x)>>

\* M.transpose()
Transpose(M) == <<<<M[1][1], M[2][1], M[3][1]>>,
                  <<M[1][2], M[2][2], M[3][2]>>,
                  <<M[1][3], M[2][3], M[3][3]>>>>

\* A * B
MatMul(A, B) == LET Bt == Transpose(B)
                IN  <<MatVec(Bt, A[1]), MatVec(Bt, A[2]), MatVec(Bt, A[3])>>

Identity3 == <<<<1, 0, 0>>, <<0, 1, 0>>, <<0, 0, 1>>>>

(* ------------------------------ input sets ----------------------------- *)

Vec3Set == {x \in (-MaxCoord..MaxCoord) \X (-MaxCoord..MaxCoord) \X (-MaxCoord..MaxCoord) :
              Abs(x[1]) + Abs(x[2]) + Abs(x[3]) <= MaxCoord}

\* a 6D spatial vector (one column): head<3>() and tail<3>()
Vec6(h, t) == [head |-> h, tail |-> t]

Zero6 == Vec6(Zero3, Zero3)

Vec6Set == {Vec6(h, t) : h \in Vec3Set, t \in Vec3Set}

\* spatial vectors whose six coordinates together stay within MaxCoord
Vec6Axis == {x \in Vec6Set :
               Abs(x.head[1]) + Abs(x.head[2]) + Abs(x.head[3])
             + Abs(x.tail[1]) + Abs(x.tail[2]) + Abs(x.tail[3]) <= MaxCoord}

\* rotations of SO(3): quarter turns about z and x, the third turn about (1,1,1)
Rotations == {Identity3,
              <<<<0, -1, 0>>, <<1, 0, 0>>, <<0, 0, 1>>>>,
              <<<<1, 0, 0>>, <<0, 0, -1>>, <<0, 1, 0>>>>,
              <<<<0, 0, 1>>, <<1, 0, 0>>, <<0, 1, 0>>>>}

Translations == {Zero3, <<1, 0, 0>>, <<0, 1, -1>>, <<-1, 1, 1>>}

\* SE3: m.rotation(), m.translation()
SE3Set == {[rotation |-> R, translation |-> p] : R \in Rotations, p \in Translations}

SE3Identity == [rotation |-> Identity3, translation |-> Zero3]

\* the external transform's composition m1 * m2
Compose(m1, m2) == [rotation    |-> MatMul(m1.rotation, m2.rotation),
                    translation |-> Add(m1.translation, MatVec(m1.rotation, m2.translation))]

\* columns of the multi-column sets, and contents of unwritten output storage
ColumnPool == {Vec6(<<1, 0, -1>>, <<0, 1, 0>>),
               Vec6(<<0, 1, 1>>, <<1, 0, 0>>),
               Vec6(<<-1, 0, 0>>, <<0, -1, 1>>)}

MotionPool == {Vec6(<<1, 0, 0>>, <<0, 0, 1>>),
               Vec6(<<0, 1, -1>>, <<1, 1, 0>>)}

Stale == Vec6(<<99, 99, 99>>, <<99, 99, 99>>)

(* ------------------------------- storage ------------------------------- *)
(* A store s maps a buffer to its columns; a column is named [mat, col].  *)

Bufs == {"A", "B", "C", "D"}

ColRef(mat, col) == [mat |-> mat, col |-> col]

\* X.cols()
Cols(s, mat) == Len(s[mat])

\* x.template head<3>() and x.template tail<3>() read through a view
HeadOf(s, x) == s[x.mat][x.col].head

TailOf(s, x) == s[x.mat][x.col].tail

\* assignment to x.template head<3>() and to x.template tail<3>()
WriteHead(s, x, val) == [s EXCEPT ![x.mat][x.col].head = val]

WriteTail(s, x, val) == [s EXCEPT ![x.mat][x.col].tail = val]

(* ---------------------- single-vector kernels: forces ------------------ *)
(* A right-hand side made of products and cross products is evaluated by   *)
(* Eigen before it is assigned (products assume aliasing, cross() returns  *)
(* a value), so each statement reads the memory as it is when the          *)
(* statement starts.                                                       *)

\* jF.head<3>() = m.rotation()*linear
ForceSetSe3Action1_head(m, s, iF, jF) ==
    WriteHead(s, jF, MatVec(m.rotation, HeadOf(s, iF)))

\* variant: the operands of the cross product exchanged
ForceSetSe3Action1_tail_CrossSwapped(m, s, iF, jF) ==
    WriteTail(s, jF, Add(Cross(HeadOf(s, jF), m.translation),
                         MatVec(m.rotation, TailOf(s, iF))))

\* variant: the cross product taken with the input's linear part
ForceSetSe3Action1_tail_InputLinear(m, s, iF, jF) ==
    WriteTail(s, jF, Add(Cross(m.translation, HeadOf(s, iF)),
                         MatVec(m.rotation, TailOf(s, iF))))

\* jF.tail<3>() = m.translation().cross(jF.head<3>()) + m.rotation()*angular
ForceSetSe3Action1_tail(m, s, iF, jF) ==
    WriteTail(s, jF, Add(Cross(m.translation, HeadOf(s, jF)),
                           MatVec(m.rotation, TailOf(s, iF))))

ForceSetSe3Action1_run(m, s, iF, jF) ==
    ForceSetSe3Action1_tail(m, ForceSetSe3Action1_head(m, s, iF, jF), iF, jF)

\* variant: the moment of the force added instead of subtracted
ForceSetSe3ActionInverse1_tmp_Plus(m, s, iF, jF) ==
    WriteHead(s, jF, Add(TailOf(s, iF), Cross(m.translation, HeadOf(s, iF))))

\* jF.head<3>() = angular - m.translation().cross(linear)   (used as temporary)
ForceSetSe3ActionInverse1_tmp(m, s, iF, jF) ==
    WriteHead(s, jF, Sub(TailOf(s, iF), Cross(m.translation, HeadOf(s, iF))))

\* jF.tail<3>() = m.rotation().transpose()*jF.head<3>()
ForceSetSe3ActionInverse1_tail(m, s, iF, jF) ==
    WriteTail(s, jF, MatVec(Transpose(m.rotation), HeadOf(s, jF)))

\* jF.head<3>() = m.rotation().transpose()*linear
ForceSetSe3ActionInverse1_head(m, s, iF, jF) ==
    WriteHead(s, jF, MatVec(Transpose(m.rotation), HeadOf(s, iF)))

ForceSetSe3ActionInverse1_run(m, s, iF, jF) ==
    ForceSetSe3ActionInverse1_head(m,
        ForceSetSe3ActionInverse1_tail(m,
            ForceSetSe3ActionInverse1_tmp(m, s, iF, jF), iF, jF), iF, jF)

\* ForceDense::motionAction(v, fout), called on the force f: fout = v x* f
ForceDense_motionAction(v, f) ==
    Vec6(Cross(v.tail, f.head),
         Add(Cross(v.tail, f.tail), Cross(v.head, f.head)))

\* ForceRef<Mat>(iF).motionAction(v, ForceRef<MatRet>(jF))
ForceSetMotionAction1_run(v, s, iF, jF) ==
    LET fout == ForceDense_motionAction(v, Vec6(HeadOf(s, iF), TailOf(s, iF)))
    IN  WriteTail(WriteHead(s, jF, fout.head), jF, fout.tail)

(* ---------------------- single-vector kernels: motions ----------------- *)

\* jV.tail<3>() = m.rotation()*angular
MotionSetSe3Action1_tail(m, s, iV, jV) ==
    WriteTail(s, jV, MatVec(m.rotation, TailOf(s, iV)))

\* variant: the cross product taken with the input's angular part
MotionSetSe3Action1_head_InputAngular(m, s, iV, jV) ==
    WriteHead(s, jV, Add(Cross(m.translation, TailOf(s, iV)),
                         MatVec(m.rotation, HeadOf(s, iV))))

\* jV.head<3>() = m.translation().cross(jV.tail<3>()) + m.rotation()*linear
MotionSetSe3Action1_head(m, s, iV, jV) ==
    WriteHead(s, jV, Add(Cross(m.translation, TailOf(s, jV)),
                           MatVec(m.rotation, HeadOf(s, iV))))

MotionSetSe3Action1_run(m, s, iV, jV) ==
    MotionSetSe3Action1_head(m, MotionSetSe3Action1_tail(m, s, iV, jV), iV, jV)

\* jV.tail<3>() = linear - m.translation().cross(angular)   (used as temporary)
MotionSetSe3ActionInverse1_tmp(m, s, iV, jV) ==
    WriteTail(s, jV, Sub(HeadOf(s, iV), Cross(m.translation, TailOf(s, iV))))

\* variant: the rotation applied without transposing it
MotionSetSe3ActionInverse1_head_NoTranspose(m, s, iV, jV) ==
    WriteHead(s, jV, MatVec(m.rotation, TailOf(s, jV)))

\* variant: the temporary read from the first output column
MotionSetSe3ActionInverse1_head_SharedTmp(m, s, iV, jV) ==
    WriteHead(s, jV, MatVec(Transpose(m.rotation), TailOf(s, ColRef(jV.mat, 1))))

\* jV.head<3>() = m.rotation().transpose()*jV.tail<3>()
MotionSetSe3ActionInverse1_head(m, s, iV, jV) ==
    WriteHead(s, jV, MatVec(Transpose(m.rotation), TailOf(s, jV)))

\* jV.tail<3>() = m.rotation().transpose()*angular
MotionSetSe3ActionInverse1_tail(m, s, iV, jV) ==
    WriteTail(s, jV, MatVec(Transpose(m.rotation), TailOf(s, iV)))

MotionSetSe3ActionInverse1_run(m, s, iV, jV) ==
    MotionSetSe3ActionInverse1_tail(m,
        MotionSetSe3ActionInverse1_head(m,
            MotionSetSe3ActionInverse1_tmp(m, s, iV, jV), iV, jV), iV, jV)

\* MotionDense::motionAction(v, mout), called on the motion x: mout = v x x
MotionDense_motionAction(v, x) ==
    Vec6(Add(Cross(v.tail, x.head), Cross(v.head, x.tail)),
         Cross(v.tail, x.tail))

\* variant: the input's head taken as its angular part
MotionSetMotionAction1_run_Swapped(v, s, iV, jV) ==
    LET mout == MotionDense_motionAction(v, Vec6(TailOf(s, iV), HeadOf(s, iV)))
    IN  WriteTail(WriteHead(s, jV, mout.head), jV, mout.tail)

\* MotionRef<Mat>(iV).motionAction(v, MotionRef<MatRet>(jV))
MotionSetMotionAction1_run(v, s, iV, jV) ==
    LET mout == MotionDense_motionAction(v, Vec6(HeadOf(s, iV), TailOf(s, iV)))
    IN  WriteTail(WriteHead(s, jV, mout.head), jV, mout.tail)

(* --------------------------- column-wise loops ------------------------- *)

\* the entry point of namespace ns called on one column (ColsAtCompileTime = 1)
Kernel1(ns, op, arg, s, iX, jX) ==
    CASE ns = "forceSet"  /\ op = "se3Action"        -> ForceSetSe3Action1_run(arg, s, iX, jX)
      [] ns = "forceSet"  /\ op = "se3ActionInverse" -> ForceSetSe3ActionInverse1_run(arg, s, iX, jX)
      [] ns = "forceSet"  /\ op = "motionAction"     -> ForceSetMotionAction1_run(arg, s, iX, jX)
      [] ns = "motionSet" /\ op = "se3Action"        -> MotionSetSe3Action1_run(arg, s, iX, jX)
      [] ns = "motionSet" /\ op = "se3ActionInverse" -> MotionSetSe3ActionInverse1_run(arg, s, iX, jX)
      [] ns = "motionSet" /\ op = "motionAction"     -> MotionSetMotionAction1_run(arg, s, iX, jX)

\* variant: every iteration reads the first input column
ColBody_FirstColumn(ns, op, arg, s, iF, jF, col) ==
    Kernel1(ns, op, arg, s, ColRef(iF, 1), ColRef(jF, col))

\* body of the loops: the entry point on (iF.col(col), jF.col(col))
ColBody(ns, op, arg, s, iF, jF, col) ==
    Kernel1(ns, op, arg, s, ColRef(iF, col), ColRef(jF, col))

\* for(col ; col < last ; ++col) body
RECURSIVE Colwise(_, _, _, _, _, _, _, _)
Colwise(ns, op, arg, s, iF, jF, col, last) ==
    IF col > last THEN s
    ELSE Colwise(ns, op, arg, ColBody(ns, op, arg, s, iF, jF, col), iF, jF, col + 1, last)

ForceSetSe3Action_run(m, s, iF, jF) ==
    Colwise("forceSet", "se3Action", m, s, iF, jF, 1, Cols(s, jF))

ForceSetMotionAction_run(v, s, iF, jF) ==
    Colwise("forceSet", "motionAction", v, s, iF, jF, 1, Cols(s, jF))

ForceSetSe3ActionInverse_run(m, s, iF, jF) ==
    Colwise("forceSet", "se3ActionInverse", m, s, iF, jF, 1, Cols(s, jF))

MotionSetSe3Action_run(m, s, iV, jV) ==
    Colwise("motionSet", "se3Action", m, s, iV, jV, 1, Cols(s, jV))

MotionSetMotionAction_run(v, s, iV, jV) ==
    Colwise("motionSet", "motionAction", v, s, iV, jV, 1, Cols(s, jV))

MotionSetSe3ActionInverse_run(m, s, iV, jV) ==
    Colwise("motionSet", "se3ActionInverse", m, s, iV, jV, 1, Cols(s, jV))

\* the generic (NCOLS) run of the entry point
SetRun(ns, op, arg, s, iF, jF) ==
    CASE ns = "forceSet"  /\ op = "se3Action"        -> ForceSetSe3Action_run(arg, s, iF, jF)
      [] ns = "forceSet"  /\ op = "se3ActionInverse" -> ForceSetSe3ActionInverse_run(arg, s, iF, jF)
      [] ns = "forceSet"  /\ op = "motionAction"     -> ForceSetMotionAction_run(arg, s, iF, jF)
      [] ns = "motionSet" /\ op = "se3Action"        -> MotionSetSe3Action_run(arg, s, iF, jF)
      [] ns = "motionSet" /\ op = "se3ActionInverse" -> MotionSetSe3ActionInverse_run(arg, s, iF, jF)
      [] ns = "motionSet" /\ op = "motionAction"     -> MotionSetMotionAction_run(arg, s, iF, jF)

(* ------------------------------ entry points --------------------------- *)
(* A call has no return value; what the caller observes is the store and   *)
(* whether the call returned.  The entry points check nothing.  When the   *)
(* output has more columns than the input, iF.col(col) is out of range:    *)
(* Eigen's assertion aborts the program in a build with assertions, and    *)
(* the kernel reads whatever lies past the input in a build without.       *)

Outcome(s, status) == [store |-> s, status |-> status]

\* iF extended up to n columns with the values g read past its end
Padded(s, iF, n, g) ==
    [s EXCEPT ![iF] = [c \in 1..n |-> IF c <= Len(s[iF]) THEN s[iF][c] ELSE g]]

\* X<...,Mat::ColsAtCompileTime>::run(arg, iF, jF); ctIn is Mat::ColsAtCompileTime
Dispatch(ns, op, arg, s, ctIn, iF, jF) ==
    IF ctIn = "1"
    THEN {Outcome(Kernel1(ns, op, arg, s, ColRef(iF, 1), ColRef(jF, 1)), "returned")}
    ELSE IF Cols(s, jF) <= Cols(s, iF)
    THEN {Outcome(SetRun(ns, op, arg, s, iF, jF), "returned")}
    ELSE {Outcome(Colwise(ns, op, arg, s, iF, jF, 1, Cols(s, iF)), "aborted")}
         \cup
         {Outcome([SetRun(ns, op, arg, Padded(s, iF, Cols(s, jF), g), iF, jF)
                      EXCEPT ![iF] = s[iF]], "returned") : g \in ColumnPool}

forceSet_se3Action(m, s, ctIn, iF, jF) == Dispatch("forceSet", "se3Action", m, s, ctIn, iF, jF)

forceSet_se3ActionInverse(m, s, ctIn, iF, jF) ==
    Dispatch("forceSet", "se3ActionInverse", m, s, ctIn, iF, jF)

forceSet_motionAction(v, s, ctIn, iF, jF) ==
    Dispatch("forceSet", "motionAction", v, s, ctIn, iF, jF)

motionSet_se3Action(m, s, ctIn, iV, jV) == Dispatch("motionSet", "se3Action", m, s, ctIn, iV, jV)

motionSet_se3ActionInverse(m, s, ctIn, iV, jV) ==
    Dispatch("motionSet", "se3ActionInverse", m, s, ctIn, iV, jV)

motionSet_motionAction(v, s, ctIn, iV, jV) ==
    Dispatch("motionSet", "motionAction", v, s, ctIn, iV, jV)

(* -------------------------------- state -------------------------------- *)

VARIABLES
    mem,     \* the caller's storage: buffer -> columns
    mem0,    \* the storage before the first call
    ct,      \* buffer -> ColsAtCompileTime of its type: "1" or "Dynamic"
    log,     \* the calls made so far, oldest first
    status,  \* "idle", "running", "returned" or "aborted"
    pc,      \* column -> number of kernel statements executed (column-parallel run)
    mixed    \* column-parallel run: a column was stepped before an earlier one was finished

vars == <<mem, mem0, ct, log, status, pc, mixed>>

Call(ns, op, m, v, iF, jF) == [ns |-> ns, op |-> op, m |-> m, v |-> v, iF |-> iF, jF |-> jF]

NoPc == [c \in {} |-> 0]

\* a vector type (one column fixed at compile time) or a dynamic-width matrix
VectorStores == {<<x>> : x \in Vec6Set}

MatrixStores == UNION {[1..n -> ColumnPool] : n \in 1..MaxCols}

StaleStore(n) == [c \in 1..n |-> Stale]

(* ------------- Spec: one call of an entry point on caller storage ------ *)
(* Input in A; output in B (distinct storage) or in A itself (in place).   *)

Init ==
    /\ \E ctA \in {"1", "Dynamic"}, ctB \in {"1", "Dynamic"} :
         /\ ct = [b \in Bufs |-> IF b = "A" THEN ctA ELSE ctB]
         /\ \E a \in (IF ctA = "1" THEN VectorStores ELSE MatrixStores),
               n \in (IF ctB = "1" THEN {1} ELSE 1..MaxCols) :
              mem = [b \in Bufs |-> IF b = "A" THEN a
                                    ELSE IF b = "B" THEN StaleStore(n) ELSE <<>>]
    /\ mem0 = mem
    /\ log = <<>>
    /\ status = "idle"
    /\ pc = NoPc
    /\ mixed = FALSE

\* EIGEN_STATIC_ASSERT_VECTOR_ONLY(MatRet) in the kernels: a call with a vector
\* input and a matrix output does not compile
Compiles(iF, jF) == ct[iF] = "1" => ct[jF] = "1"

Invoke(outcomes, call) ==
    /\ status = "idle"
    /\ Compiles(call.iF, call.jF)
    /\ \E o \in outcomes :
         /\ mem' = o.store
         /\ status' = o.status
    /\ log' = Append(log, call)
    /\ UNCHANGED <<mem0, ct, pc, mixed>>

ForceSe3Action ==
    \E m \in SE3Set, jF \in {"A", "B"} :
       Invoke(forceSet_se3Action(m, mem, ct["A"], "A", jF),
              Call("forceSet", "se3Action", m, Zero6, "A", jF))

ForceSe3ActionInverse ==
    \E m \in SE3Set, jF \in {"A", "B"} :
       Invoke(forceSet_se3ActionInverse(m, mem, ct["A"], "A", jF),
              Call("forceSet", "se3ActionInverse", m, Zero6, "A", jF))

ForceMotionAction ==
    \E v \in MotionPool \cup {mem["A"][1]} :
       Invoke(forceSet_motionAction(v, mem, ct["A"], "A", "B"),
              Call("forceSet", "motionAction", SE3Identity, v, "A", "B"))

MotionSe3Action ==
    \E m \in SE3Set, jV \in {"A", "B"} :
       Invoke(motionSet_se3Action(m, mem, ct["A"], "A", jV),
              Call("motionSet", "se3Action", m, Zero6, "A", jV))

MotionSe3ActionInverse ==
    \E m \in SE3Set, jV \in {"A", "B"} :
       Invoke(motionSet_se3ActionInverse(m, mem, ct["A"], "A", jV),
              Call("motionSet", "se3ActionInverse", m, Zero6, "A", jV))

MotionMotionAction ==
    \E v \in MotionPool \cup {mem["A"][1]} :
       Invoke(motionSet_motionAction(v, mem, ct["A"], "A", "B"),
              Call("motionSet", "motionAction", SE3Identity, v, "A", "B"))

Next ==
    \/ ForceSe3Action
    \/ ForceSe3ActionInverse
    \/ ForceMotionAction
    \/ MotionSe3Action
    \/ MotionSe3ActionInverse
    \/ MotionMotionAction

Spec == Init /\ [][Next]_vars

(* ------------------------- claims checked under Spec ------------------- *)

Rt(m) == Transpose(m.rotation)

\* the single-vector call c has returned, output in storage distinct from the input
ReturnedVector(ns, op) ==
    /\ Len(log) = 1
    /\ status = "returned"
    /\ log[1].ns = ns
    /\ log[1].op = op
    /\ ct[log[1].iF] = "1"
    /\ log[1].iF # log[1].jF

\* the single-vector call c has returned, output written over the input
ReturnedInPlace(ns, op) ==
    /\ Len(log) = 1
    /\ status = "returned"
    /\ log[1].ns = ns
    /\ log[1].op = op
    /\ ct[log[1].iF] = "1"
    /\ log[1].iF = log[1].jF

In0 == mem0[log[1].iF][1]

Out1 == mem[log[1].jF][1]

Scenario ==
    /\ log[1].m = [rotation |-> Identity3, translation |-> <<1, 0, 0>>]
    /\ In0 = Vec6(<<0, 0, 0>>, <<0, 0, 1>>)

\* C1: the single-vector motionSet::se3Action writes v'_ang = R v_ang and
\* v'_lin = p x v'_ang + R v_lin, and motionSet::se3ActionInverse writes
\* v'_lin = R^T (v_lin - p x v_ang) and v'_ang = R^T v_ang, when the output is
\* storage distinct from the input; with R = identity, p = (1,0,0) and
\* v = ((0,0,0),(0,0,1)) the forward result is ((0,-1,0),(0,0,1)).
C1_MotionFormulas ==
    /\ ReturnedVector("motionSet", "se3Action") =>
         LET m == log[1].m
             ang == MatVec(m.rotation, In0.tail)
         IN  /\ Out1.tail = ang
             /\ Out1.head = Add(Cross(m.translation, ang), MatVec(m.rotation, In0.head))
             /\ Scenario => Out1 = Vec6(<<0, -1, 0>>, <<0, 0, 1>>)
    /\ ReturnedVector("motionSet", "se3ActionInverse") =>
         LET m == log[1].m
         IN  /\ Out1.head = MatVec(Rt(m), Sub(In0.head, Cross(m.translation, In0.tail)))
             /\ Out1.tail = MatVec(Rt(m), In0.tail)

C1_Witness ==
    /\ ReturnedVector("motionSet", "se3Action")
    /\ Scenario
    /\ Out1 = Vec6(<<0, -1, 0>>, <<0, 0, 1>>)

\* C2: the single-vector forceSet::se3Action writes f'_lin = R f_lin and
\* f'_ang = p x f'_lin + R f_ang, and forceSet::se3ActionInverse writes
\* f'_ang = R^T (f_ang - p x f_lin) and f'_lin = R^T f_lin, when the output is
\* storage distinct from the input.
C2_ForceFormulas ==
    /\ ReturnedVector("forceSet", "se3Action") =>
         LET m == log[1].m
             lin == MatVec(m.rotation, In0.head)
         IN  /\ Out1.head = lin
             /\ Out1.tail = Add(Cross(m.translation, lin), MatVec(m.rotation, In0.tail))
    /\ ReturnedVector("forceSet", "se3ActionInverse") =>
         LET m == log[1].m
         IN  /\ Out1.tail = MatVec(Rt(m), Sub(In0.tail, Cross(m.translation, In0.head)))
             /\ Out1.head = MatVec(Rt(m), In0.head)

C2_Witness ==
    /\ ReturnedVector("forceSet", "se3ActionInverse")
    /\ log[1].m.rotation # Identity3
    /\ Cross(log[1].m.translation, In0.head) # Zero3
    /\ Out1.tail = MatVec(Rt(log[1].m), Sub(In0.tail, Cross(log[1].m.translation, In0.head)))
    /\ Out1.tail # MatVec(Rt(log[1].m), In0.tail)

\* C7: when the single-vector se3ActionInverse writes its output over its
\* input, the result is the inverse action of the values the storage held
\* before the call, for motions and for forces.
C7_InPlaceInverse ==
    /\ ReturnedInPlace("motionSet", "se3ActionInverse") =>
         LET m == log[1].m
         IN  /\ Out1.head = MatVec(Rt(m), Sub(In0.head, Cross(m.translation, In0.tail)))
             /\ Out1.tail = MatVec(Rt(m), In0.tail)
    /\ ReturnedInPlace("forceSet", "se3ActionInverse") =>
         LET m == log[1].m
         IN  /\ Out1.tail = MatVec(Rt(m), Sub(In0.tail, Cross(m.translation, In0.head)))
             /\ Out1.head = MatVec(Rt(m), In0.head)

\* C9: motionSet::motionAction(v, v) is the zero 6-vector, for every motion v.
C9_BracketOfItself ==
    (/\ Len(log) = 1
     /\ status = "returned"
     /\ log[1].ns = "motionSet"
     /\ log[1].op = "motionAction"
     /\ ct["A"] = "1"
     /\ log[1].v = In0) => Out1 = Zero6

C9_Witness ==
    /\ Len(log) = 1
    /\ status = "returned"
    /\ log[1].ns = "motionSet"
    /\ log[1].op = "motionAction"
    /\ ct["A"] = "1"
    /\ log[1].v = In0
    /\ Cross(In0.tail, In0.head) # Zero3
    /\ Out1 = Zero6

\* a store holding the single column x, and one stale output column
Alone(x) == [b \in Bufs |-> IF b = "A" THEN <<x>> ELSE IF b = "B" THEN <<Stale>> ELSE <<>>]

\* the single-vector kernel applied to the column x alone
KernelAlone(c, x) ==
    Kernel1(c.ns, c.op, IF c.op = "motionAction" THEN c.v ELSE c.m,
            Alone(x), ColRef("A", 1), ColRef("B", 1))["B"][1]

\* a set-level call on N > 1 columns, N output columns in distinct storage, has returned
ReturnedSet ==
    /\ Len(log) = 1
    /\ status = "returned"
    /\ ct[log[1].iF] = "Dynamic"
    /\ log[1].iF # log[1].jF
    /\ Len(mem0[log[1].iF]) > 1
    /\ Len(mem0[log[1].jF]) = Len(mem0[log[1].iF])

\* C3: after a set-level call on N > 1 columns with N output columns in
\* distinct storage, output column i is the single-vector kernel applied to
\* input column i alone, for every i and each of the six operations.
C3_BatchEquivalence ==
    ReturnedSet =>
       \A i \in 1..Len(mem0[log[1].iF]) :
          mem[log[1].jF][i] = KernelAlone(log[1], mem0[log[1].iF][i])

C3_Witness ==
    /\ ReturnedSet
    /\ log[1].op = "se3ActionInverse"
    /\ log[1].m.translation # Zero3
    /\ mem0["A"][1] # mem0["A"][2]
    /\ mem["B"][2] = KernelAlone(log[1], mem0["A"][2])
    /\ mem["B"][2] # mem["B"][1]

\* C8: a set-level call whose input and output sets have different column
\* counts is rejected with an error signal and writes no output column; it
\* does not return normally with some columns computed.
C8_MismatchRejected ==
    (/\ Len(log) = 1
     /\ Len(mem0[log[1].iF]) # Len(mem0[log[1].jF]))
    => (/\ status # "returned"
        /\ mem[log[1].jF] = mem0[log[1].jF])

(* ------- SpecChain: two single-vector calls, the second on the first's output ------ *)
(* A -> B by a first se3Action or se3ActionInverse; then B -> C either by  *)
(* the opposite action of the same transform or by a further se3Action.    *)

Se3Ops == {"se3Action", "se3ActionInverse"}

Namespaces == {"forceSet", "motionSet"}

Opposite(op) == IF op = "se3Action" THEN "se3ActionInverse" ELSE "se3Action"

InitChain ==
    /\ ct = [b \in Bufs |-> "1"]
    /\ \E a \in VectorStores :
         mem = [b \in Bufs |-> IF b = "A" THEN a ELSE IF b = "D" THEN <<>> ELSE <<Stale>>]
    /\ mem0 = mem
    /\ log = <<>>
    /\ status = "idle"
    /\ pc = NoPc
    /\ mixed = FALSE

ChainCall(ns, op, m, iF, jF) ==
    /\ \E o \in Dispatch(ns, op, m, mem, ct[iF], iF, jF) :
         /\ mem' = o.store
         /\ status' = o.status
    /\ log' = Append(log, Call(ns, op, m, Zero6, iF, jF))
    /\ UNCHANGED <<mem0, ct, pc, mixed>>

ChainFirst ==
    /\ status = "idle"
    /\ \E ns \in Namespaces, op \in Se3Ops, m \in SE3Set : ChainCall(ns, op, m, "A", "B")

ChainBack ==
    /\ status = "returned"
    /\ Len(log) = 1
    /\ ChainCall(log[1].ns, Opposite(log[1].op), log[1].m, "B", "C")

ChainOnward ==
    /\ status = "returned"
    /\ Len(log) = 1
    /\ log[1].op = "se3Action"
    /\ \E m1 \in SE3Set : ChainCall(log[1].ns, "se3Action", m1, "B", "C")

NextChain ==
    \/ ChainFirst
    \/ ChainBack
    \/ ChainOnward

SpecChain == InitChain /\ [][NextChain]_vars

\* C4: se3ActionInverse(m, se3Action(m, X)) = X and
\* se3Action(m, se3ActionInverse(m, X)) = X, for motions and for forces, each
\* call writing into storage distinct from its input.
C4_InverseRoundTrip ==
    (/\ Len(log) = 2
     /\ status = "returned"
     /\ log[2].m = log[1].m
     /\ log[2].op = Opposite(log[1].op)) => mem["C"][1] = mem0["A"][1]

C4_Witness ==
    /\ Len(log) = 2
    /\ status = "returned"
    /\ log[2].m = log[1].m
    /\ log[1].op = "se3Action"
    /\ log[2].op = "se3ActionInverse"
    /\ log[1].m.rotation # Identity3
    /\ Cross(log[1].m.translation, mem["B"][1].tail) # Zero3
    /\ mem["B"][1] # mem0["A"][1]
    /\ mem["C"][1] = mem0["A"][1]

\* C6: se3Action(m1, se3Action(m2, X)) = se3Action(compose(m1, m2), X) with
\* compose(m1, m2) = (R1 R2, p1 + R1 p2), for the motion and the force action.
C6_Composition ==
    (/\ Len(log) = 2
     /\ status = "returned"
     /\ log[1].op = "se3Action"
     /\ log[2].op = "se3Action")
    => mem["C"][1] = KernelAlone(Call(log[1].ns, "se3Action", Compose(log[2].m, log[1].m),
                                      Zero6, "A", "B"),
                                 mem0["A"][1])

C6_Witness ==
    /\ Len(log) = 2
    /\ status = "returned"
    /\ log[1].op = "se3Action"
    /\ log[2].op = "se3Action"
    /\ log[1].m.rotation # Identity3
    /\ log[2].m.rotation # Identity3
    /\ log[1].m.rotation # log[2].m.rotation
    /\ log[1].m.translation # Zero3
    /\ log[2].m.translation # Zero3
    /\ mem["C"][1] # mem["B"][1]
    /\ mem["C"][1] = KernelAlone(Call(log[1].ns, "se3Action", Compose(log[2].m, log[1].m),
                                      Zero6, "A", "B"),
                                 mem0["A"][1])

(* ------ SpecDual: a force and a motion carried by the same transform ------ *)
(* Force f in A, motion v in B; C receives the action on f, D the action   *)
(* on v.                                                                   *)

InitDual ==
    /\ ct = [b \in Bufs |-> "1"]
    /\ \E f \in Vec6Axis, v \in Vec6Axis :
         mem = [b \in Bufs |-> IF b = "A" THEN <<f>>
                               ELSE IF b = "B" THEN <<v>> ELSE <<Stale>>]
    /\ mem0 = mem
    /\ log = <<>>
    /\ status = "idle"
    /\ pc = NoPc
    /\ mixed = FALSE

DualCalls(op, m) ==
    /\ status = "idle"
    /\ \E o \in Dispatch("forceSet", op, m, mem, ct["A"], "A", "C") :
         \E q \in Dispatch("motionSet", op, m, o.store, ct["B"], "B", "D") :
            /\ mem' = q.store
            /\ status' = q.status
    /\ log' = <<Call("forceSet", op, m, Zero6, "A", "C"),
                Call("motionSet", op, m, Zero6, "B", "D")>>
    /\ UNCHANGED <<mem0, ct, pc, mixed>>

DualForward == \E m \in SE3Set : DualCalls("se3Action", m)

DualInverse == \E m \in SE3Set : DualCalls("se3ActionInverse", m)

NextDual ==
    \/ DualForward
    \/ DualInverse

SpecDual == InitDual /\ [][NextDual]_vars

\* the pairing as the specification writes it: f_lin . v_ang + f_ang . v_lin
CrossPairing(f, v) == Dot(f.head, v.tail) + Dot(f.tail, v.head)

\* the power of a force along a motion: f_lin . v_lin + f_ang . v_ang
Power(f, v) == Dot(f.head, v.head) + Dot(f.tail, v.tail)

\* C5 as stated: <f,v> = f_lin . v_ang + f_ang . v_lin is the same before and
\* after the force and the motion are both carried by se3Action(m, .), and
\* likewise by se3ActionInverse(m, .).
C5_CrossPairingInvariant ==
    (Len(log) = 2 /\ status = "returned")
    => CrossPairing(mem["C"][1], mem["D"][1]) = CrossPairing(mem0["A"][1], mem0["B"][1])

\* C5 as amended: the pairing <f,v> = f_lin . v_lin + f_ang . v_ang is the same
\* before and after the force and the motion are both carried by
\* se3Action(m, .), and likewise by se3ActionInverse(m, .).
C5_PowerInvariant ==
    (Len(log) = 2 /\ status = "returned")
    => Power(mem["C"][1], mem["D"][1]) = Power(mem0["A"][1], mem0["B"][1])

C5_Witness ==
    /\ Len(log) = 2
    /\ status = "returned"
    /\ log[1].op = "se3Action"
    /\ log[1].m.rotation # Identity3
    /\ Dot(mem["C"][1].head, mem["D"][1].head) # 0
    /\ Dot(mem["C"][1].tail, mem["D"][1].tail) # 0
    /\ Power(mem["C"][1], mem["D"][1]) = Power(mem0["A"][1], mem0["B"][1])

(* ------ SpecPar: the columns of one set-level call processed concurrently ------ *)
(* Every column runs the statements of its single-vector kernel in order;  *)
(* the statements of different columns are interleaved arbitrarily.  The   *)
(* delegated motionAction is one step.                                     *)

NStmts(op) == IF op = "se3Action" THEN 2 ELSE IF op = "se3ActionInverse" THEN 3 ELSE 1

\* statement k of the single-vector kernel
Stmt(ns, op, k, arg, s, iX, jX) ==
    CASE ns = "forceSet" /\ op = "se3Action" /\ k = 1 -> ForceSetSe3Action1_head(arg, s, iX, jX)
      [] ns = "forceSet" /\ op = "se3Action" /\ k = 2 -> ForceSetSe3Action1_tail(arg, s, iX, jX)
      [] ns = "forceSet" /\ op = "se3ActionInverse" /\ k = 1 ->
            ForceSetSe3ActionInverse1_tmp(arg, s, iX, jX)
      [] ns = "forceSet" /\ op = "se3ActionInverse" /\ k = 2 ->
            ForceSetSe3ActionInverse1_tail(arg, s, iX, jX)
      [] ns = "forceSet" /\ op = "se3ActionInverse" /\ k = 3 ->
            ForceSetSe3ActionInverse1_head(arg, s, iX, jX)
      [] ns = "forceSet" /\ op = "motionAction" -> ForceSetMotionAction1_run(arg, s, iX, jX)
      [] ns = "motionSet" /\ op = "se3Action" /\ k = 1 -> MotionSetSe3Action1_tail(arg, s, iX, jX)
      [] ns = "motionSet" /\ op = "se3Action" /\ k = 2 -> MotionSetSe3Action1_head(arg, s, iX, jX)
      [] ns = "motionSet" /\ op = "se3ActionInverse" /\ k = 1 ->
            MotionSetSe3ActionInverse1_tmp(arg, s, iX, jX)
      [] ns = "motionSet" /\ op = "se3ActionInverse" /\ k = 2 ->
            MotionSetSe3ActionInverse1_head(arg, s, iX, jX)
      [] ns = "motionSet" /\ op = "se3ActionInverse" /\ k = 3 ->
            MotionSetSe3ActionInverse1_tail(arg, s, iX, jX)
      [] ns = "motionSet" /\ op = "motionAction" -> MotionSetMotionAction1_run(arg, s, iX, jX)

\* the first k statements of the kernel, in order
RECURSIVE StmtsUpTo(_, _, _, _, _, _, _)
StmtsUpTo(ns, op, k, arg, s, iX, jX) ==
    IF k = 0 THEN s
    ELSE Stmt(ns, op, k, arg, StmtsUpTo(ns, op, k - 1, arg, s, iX, jX), iX, jX)

ArgOf(c) == IF c.op = "motionAction" THEN c.v ELSE c.m

InitPar ==
    /\ ct = [b \in Bufs |-> "Dynamic"]
    /\ \E a \in MatrixStores :
         mem = [b \in Bufs |-> IF b = "A" THEN a
                               ELSE IF b = "B" THEN StaleStore(Len(a)) ELSE <<>>]
    /\ mem0 = mem
    /\ log = <<>>
    /\ status = "idle"
    /\ pc = NoPc
    /\ mixed = FALSE

ParStart ==
    /\ status = "idle"
    /\ \E ns \in Namespaces :
         \/ \E op \in Se3Ops, m \in SE3Set : log' = <<Call(ns, op, m, Zero6, "A", "B")>>
         \/ \E v \in MotionPool : log' = <<Call(ns, "motionAction", SE3Identity, v, "A", "B")>>
    /\ status' = "running"
    /\ pc' = [c \in 1..Cols(mem, "B") |-> 0]
    /\ UNCHANGED <<mem, mem0, ct, mixed>>

ParStep ==
    /\ status = "running"
    /\ \E c \in DOMAIN pc :
         /\ pc[c] < NStmts(log[1].op)
         /\ mem' = Stmt(log[1].ns, log[1].op, pc[c] + 1, ArgOf(log[1]), mem,
                        ColRef("A", c), ColRef("B", c))
         /\ pc' = [pc EXCEPT ![c] = pc[c] + 1]
         /\ mixed' = (mixed \/ \E d \in DOMAIN pc : d < c /\ pc[d] < NStmts(log[1].op))
    /\ UNCHANGED <<mem0, ct, log, status>>

ParJoin ==
    /\ status = "running"
    /\ \A c \in DOMAIN pc : pc[c] = NStmts(log[1].op)
    /\ status' = "returned"
    /\ UNCHANGED <<mem, mem0, ct, log, pc, mixed>>

NextPar ==
    \/ ParStart
    \/ ParStep
    \/ ParJoin

SpecPar == InitPar /\ [][NextPar]_vars

\* what the left-to-right loop of the entry point leaves in the store
LeftToRight == SetRun(log[1].ns, log[1].op, ArgOf(log[1]), mem0, "A", "B")

\* output column c after the first k statements of the kernel run on column c alone
PartialAlone(c, k) ==
    StmtsUpTo(log[1].ns, log[1].op, k, ArgOf(log[1]), Alone(mem0["A"][c]),
              ColRef("A", 1), ColRef("B", 1))["B"][1]

\* C10: processing column i reads only input column i and the shared
\* transform or velocity and writes only output column i, scratch writes of
\* the inverse kernels included: whatever the other columns have done, output
\* column i holds what the statements executed so far for column i leave when
\* run on column i alone, and the input set is unchanged; so when all columns
\* are done the output set is the one the left-to-right loop produces.
C10_ColumnIndependence ==
    status \in {"running", "returned"} =>
       /\ mem["A"] = mem0["A"]
       /\ \A c \in DOMAIN pc : mem["B"][c] = PartialAlone(c, pc[c])
       /\ status = "returned" => mem = LeftToRight

C10_Witness ==
    /\ status = "returned"
    /\ mixed
    /\ Cols(mem, "B") > 1
    /\ log[1].op = "se3ActionInverse"
    /\ log[1].m.translation # Zero3
    /\ mem["B"][1] # mem["B"][2]
    /\ mem = LeftToRight

====
